---- MODULE Spec2Model ----
(***************************************************************************)
(* AUSProperty ML service (apps/ml/main.py): the predict / train / cache   *)
(* pipeline as a state machine.                                            *)
(*                                                                         *)
(* Shared state: the artifact file models/model.joblib, the Redis cache    *)
(* and the wall clock.  Every request runs on a worker of the framework's  *)
(* thread pool; the steps of a handler that touch shared state are         *)
(* separate actions, so requests interleave as threads do.                 *)
(*                                                                         *)
(* Numbers: feature values are held in units of 1e-4 (so -33.8688 is       *)
(* -338688), heuristic prices as exact fractions of 1e-1, confidences in   *)
(* percent.  Fitted                                                        *)
(* scalers and regressions are held as terms over the training data they   *)
(* were fitted on: two are equal iff fitted on the same data.              *)
(***************************************************************************)
EXTENDS Integers, Sequences, FiniteSets, Bags, TLC

\* ------------------------------------------------------------------ bounds
Workers == 2         \* requests in flight at once
MaxReq == 3          \* requests received in a behaviour
MaxLen == 2          \* longest properties / prices list of a train request
MaxClock == 3600     \* last instant the clock reaches (seconds)
TickStep == 1800     \* seconds between two observed instants
MaxFieldVal == 1     \* largest explicit field value tried on extract_features

\* --------------------------------------------------------- program constants
TTL == 3600                  \* cache.set(..., ex=3600)
ConfidenceModel == 75        \* confidence = 0.75
ConfidenceFallback == 30     \* confidence = 0.3
NumFeatures == 8             \* fields of PropertyFeatures

\* ------------------------------------------------------------ request bodies
\* A field of a JSON property object: left out, null, a number, or a value
\* the schema rejects.
Unset == [tag |-> "unset", n |-> 0]
Null == [tag |-> "null", n |-> 0]
Bad == [tag |-> "bad", n |-> 0]
Num(k) == [tag |-> "num", n |-> k]

\* Field order: bedrooms, bathrooms, parkingSpaces, landSizeM2, buildingSizeM2,
\* lat, lng, convenienceScore.
FieldNames ==
    << "bedrooms", "bathrooms", "parkingSpaces", "landSizeM2",
       "buildingSizeM2", "lat", "lng", "convenienceScore" >>

\* The class defaults of PropertyFeatures.
FieldDefaults ==
    << 20000, 10000, 10000, 5000000, 1200000, -338688, 1512093, 500000 >>

\* PropertyFeatures(**p): a field left out takes the class default, null
\* stays None, a number is kept.
PropertyFeatures(raw) ==
    [i \in 1..NumFeatures |->
        IF raw[i].tag = "unset" THEN Num(FieldDefaults[i]) ELSE raw[i]]

\* PropertyFeatures(**p) raises a validation error on a value of the wrong type.
ValidProperty(raw) == \A i \in 1..NumFeatures : raw[i].tag # "bad"

extract_features_swapped(prop) ==
    [i \in 1..NumFeatures |->
        IF prop[i].tag = "null" \/ prop[i].n = 0
        THEN << 20000, 10000, 10000, 5000000, 1200000, 1512093, -338688, 500000 >>[i]
        ELSE prop[i].n]

\* extract_features: `prop.x or d` yields d when prop.x is None or zero.
extract_features(prop) ==
    [i \in 1..NumFeatures |->
        IF prop[i].tag = "null" \/ prop[i].n = 0
        THEN << 20000, 10000, 10000, 5000000, 1200000, -338688, 1512093, 500000 >>[i]
        ELSE prop[i].n]

AllUnset == [i \in 1..NumFeatures |-> Unset]
PropNull == [AllUnset EXCEPT ![1] = Null]            \* {"bedrooms": null}
PropThree == [AllUnset EXCEPT ![1] = Num(30000)]     \* {"bedrooms": 3}
PropBad == [AllUnset EXCEPT ![1] = Bad]              \* {"bedrooms": "abc"}

\* Property objects of predict requests (the framework has validated them).
Props == {PropNull, PropThree}

\* Items of the properties list of a train request, and target prices.
TrainItems == {PropThree, PropBad}
PriceValues == {750000}

SeqsUpTo(S, n) == UNION {[1..k -> S] : k \in 0..n}

\* TrainingData bodies.
TrainInputs ==
    [properties : SeqsUpTo(TrainItems, MaxLen), prices : SeqsUpTo(PriceValues, MaxLen)]

EmptyData == [properties |-> << >>, prices |-> << >>]

\* Field values tried on extract_features.
FieldInputs == {Unset, Null} \cup {Num(k * 10000) : k \in 0..MaxFieldVal}

\* ------------------------------------------------------------- model store
\* StandardScaler().fit(X), scaler.transform(x), LinearRegression().fit(Xs, y)
\* and model.predict(xs), as terms.
StandardScalerFit(X) == [scaler_fitted_on |-> X]
ScalerTransform(scaler, x) == [scaler |-> scaler, x |-> x]
LinearRegressionFit(Xs, y) == [fit_X |-> Xs, fit_y |-> y]
ModelPredict(model, xs) == [regression |-> model, scaled |-> xs]
ModelScore(model, Xs, y) == [r2_of |-> model, on_X |-> Xs, on_y |-> y]

\* {'model': model, 'scaler': scaler}
NoArtifact ==
    [model |-> LinearRegressionFit(<< >>, << >>), scaler |-> StandardScalerFit(<< >>)]

\* The file models/model.joblib: absent, being written (joblib.dump has opened
\* and truncated it and has not finished), or complete.
NoFile == [state |-> "absent", art |-> NoArtifact]
PartialFile(a) == [state |-> "partial", art |-> a]
CompleteFile(a) == [state |-> "complete", art |-> a]

makedirs_fresh(f) == NoFile

\* os.makedirs(model_dir, exist_ok=True): creates the directory when it is
\* missing; an existing directory and the file in it are left as they are.
makedirs(f) == f

\* ------------------------------------------------------------------- cache
\* str(x) of a Python float (the array holds float64, so 3 prints as 3.0): the
\* sign, the integer part and the decimal digits after the point without
\* trailing zeros, a single 0 when there are none.  x is in units of 1e-4.
float_repr(x) ==
    LET a == IF x < 0 THEN 0 - x ELSE x
        f == a % 10000
        digits == << f \div 1000, (f \div 100) % 10, (f \div 10) % 10, f % 10 >>
        nonzero == {i \in 1..4 : digits[i] # 0}
        last == IF nonzero = {} THEN 1
                ELSE CHOOSE i \in nonzero : \A j \in nonzero : j <= i
    IN  [neg |-> x < 0, whole |-> a \div 10000, frac |-> SubSeq(digits, 1, last)]

\* str(feat_tuple): the printed elements in order.
tuple_str(feat_tuple) ==
    [i \in 1..Len(feat_tuple) |-> float_repr(feat_tuple[i])]

\* hashlib.md5(s.encode()).hexdigest(): held as a term over the string that
\* was digested (equal strings give equal digests; the 128-bit digest is taken
\* to separate the strings that occur).
md5_hexdigest(s) == << "md5", s >>

cache_key_without_bedrooms(feat_tuple) ==
    << "ml:predict:", md5_hexdigest(tuple_str(Tail(feat_tuple))) >>

\* f"ml:predict:{hashlib.md5(str(feat_tuple).encode()).hexdigest()}"
cache_key(feat_tuple) == << "ml:predict:", md5_hexdigest(tuple_str(feat_tuple)) >>

\* The key train deletes: the literal string 'ml:predict:*'.
PatternKey == << "ml:predict:", << "*" >> >>

\* json.dumps(result) and json.loads(cached).
json_dumps(r) == [json |-> << r.price, r.confidence, r.model_version, r.predicted_at >>]
json_loads(s) ==
    [price |-> s.json[1], confidence |-> s.json[2],
     model_version |-> s.json[3], predicted_at |-> s.json[4]]

\* Redis GET: the live entry under exactly this key, if any.
cache_get(c, key, now) == {e \in c : e.key = key /\ now < e.expires}

cache_set_no_expiry(c, key, value, now) ==
    {e \in c : e.key # key}
        \cup {[key |-> key, value |-> value, expires |-> now + 2 * TTL]}

\* Redis SET key value EX 3600.
cache_set(c, key, value, now) ==
    {e \in c : e.key # key}
        \cup {[key |-> key, value |-> value, expires |-> now + TTL]}

cache_after_getex(c, key, now) ==
    {e \in c : e.key # key}
        \cup {[e EXCEPT !.expires = now + TTL] : e \in cache_get(c, key, now)}

\* What Redis GET leaves on the server: every entry and its expiry as it was.
cache_after_get(c, key, now) == c

\* Redis DEL key: removes the entry under exactly this key.
cache_delete(c, key) == {e \in c : e.key # key}

\* What the server still holds at instant `now`.
Unexpired(c, now) == {e \in c : now < e.expires}

\* --------------------------------------------------------------- predictor
MakeResult(pred, confidence, now) ==
    [price |-> pred, confidence |-> confidence,
     model_version |-> "v1", predicted_at |-> now]

\* float(np.mean(features) * 1000).  The features are held in units of 1e-4,
\* so the product is held in units of 1e-1, as the exact fraction num / den.
FallbackPrice(features) ==
    LET Sum[i \in 0..NumFeatures] ==
            IF i = 0 THEN 0 ELSE Sum[i - 1] + features[i]
    IN  [mean1000 |-> [num |-> Sum[NumFeatures], den |-> Len(features)]]

Fallback(features) ==
    [raised |-> FALSE, pred |-> FallbackPrice(features), confidence |-> ConfidenceFallback]

\* The try block of predict: load, scale, infer.
ModelPrice(art, features) ==
    ModelPredict(art.model, ScalerTransform(art.scaler, features))

PredictionErrorRaises(features) ==
    [raised |-> TRUE, pred |-> FallbackPrice(features), confidence |-> ConfidenceFallback]

\* except Exception as e: ... pred = mean * 1000; confidence = 0.3
OnPredictionError(features) == Fallback(features)

\* The branch taken when os.path.exists(model_path): joblib.load raises on a
\* partially written file, and any step may raise (loadFails).
FromModel(file, loadFails, features) ==
    IF file.state = "partial" \/ loadFails
    THEN OnPredictionError(features)
    ELSE [raised |-> FALSE, pred |-> ModelPrice(file.art, features),
          confidence |-> ConfidenceModel]

NoModelSum(features) ==
    [raised |-> FALSE,
     pred |-> [mean1000 |-> [num |-> FallbackPrice(features).mean1000.num, den |-> 1]],
     confidence |-> ConfidenceFallback]

\* The else branch: no artifact file.
NoModel(features) == Fallback(features)

GetOutcomeRaising(failed, entries) ==
    IF failed THEN "raise" ELSE IF entries # {} THEN "hit" ELSE "miss"

\* cached = cache.get(cache_key); if cached: return ...; except Exception: pass
GetOutcome(failed, entries) ==
    IF failed THEN "miss" ELSE IF entries # {} THEN "hit" ELSE "miss"

\* cache.set(...) inside try / except Exception: pass
SetOutcome(failed) == IF failed THEN "noop" ELSE "stored"

\* ----------------------------------------------------------------- trainer
\* try: cache = redis.from_url(...); cache.delete('ml:predict:*')
\* except Exception: pass
DeleteOutcome(failed) == IF failed THEN "ignored" ELSE "deleted"


MessageNoData == "No data provided"
MessageMismatch == "Mismatch: properties and prices length differ"

ValidateMismatchFirst(data) ==
    IF Len(data.properties) # Len(data.prices) THEN MessageMismatch
    ELSE IF Len(data.properties) = 0 \/ Len(data.prices) = 0 THEN MessageNoData
    ELSE "ok"

\* if not data.properties or not data.prices: ...; if len(...) != len(...): ...
Validate(data) ==
    IF Len(data.properties) = 0 \/ Len(data.prices) = 0 THEN MessageNoData
    ELSE IF Len(data.properties) # Len(data.prices) THEN MessageMismatch
    ELSE "ok"

\* X = np.array([extract_features(PropertyFeatures(**p)) for p in data.properties])
ExtractRaises(data) ==
    \E i \in 1..Len(data.properties) : ~ValidProperty(data.properties[i])

FeatureMatrix(data) ==
    [i \in 1..Len(data.properties) |->
        extract_features(PropertyFeatures(data.properties[i]))]

\* scaler.fit_transform(X), model.fit(X_scaled, y)
FitArtifact(data) ==
    LET X == FeatureMatrix(data)
        scaler == StandardScalerFit(X)
        X_scaled == [i \in 1..Len(X) |-> ScalerTransform(scaler, X[i])]
    IN  [model |-> LinearRegressionFit(X_scaled, data.prices), scaler |-> scaler]

NotTrainedMessage(m) == [trained |-> FALSE, message |-> m]
NotTrainedError(e) == [trained |-> FALSE, error |-> e]
Trained(art, data, now) ==
    [trained |-> TRUE, model_path |-> "models/model.joblib",
     samples |-> Len(data.properties),
     r_squared |-> ModelScore(art.model, art.model.fit_X, data.prices),
     timestamp |-> now]

\* ------------------------------------------------------------------- state
VARIABLES
    file,            \* models/model.joblib
    cache,           \* the Redis server's entries
    clock,           \* seconds since the service started
    inflight,        \* the requests being handled: a bag of handler frames
    nreq,            \* requests received so far
    everTrained,     \* history: a train request has returned trained:true
    everPersisted,   \* history: joblib.dump has finished writing an artifact
    staleKeys,       \* history: keys whose entry was stored before a train returned
    stores,          \* history: every (key, result, instant, vector) a predict stored
    lastStore,       \* history: per key, the latest of those
    exIn,            \* the property object given to extract_features
    exOut            \* the vector it returned (<< >> before the call)

vars ==
    << file, cache, clock, inflight, nreq, everTrained, everPersisted,
       staleKeys, stores, lastStore, exIn, exOut >>

NoResult == [pending |-> TRUE]

\* The frame of a handler that has just been entered.  The fields from readOk
\* on are history, kept to state the properties; no action's guard or effect
\* on the program reads them.  log lists the steps a train has begun,
\* fileWritten tells that it has opened the artifact file for writing, before
\* holds the artifact file and the cache as a rejected train found them.
NewReq ==
    [pc |-> "start", kind |-> "none", features |-> << >>, data |-> EmptyData,
     cache |-> FALSE, artifact |-> NoArtifact, result |-> NoResult,
     readOk |-> FALSE, served |-> "none", fail |-> FALSE, seen |-> NoFile,
     hitStale |-> FALSE, trainedAtStart |-> FALSE, after |-> {}, last |-> {}, getTime |-> 0,
     setFailed |-> FALSE, cacheChanged |-> FALSE, cacheFailed |-> FALSE,
     log |-> << >>, fileWritten |-> FALSE, before |-> [file |-> NoFile, cache |-> {}]]

Init ==
    /\ file = NoFile
    /\ cache = {}
    /\ clock = 0
    /\ inflight = EmptyBag
    /\ nreq = 0
    /\ everTrained = FALSE
    /\ everPersisted = FALSE
    /\ staleKeys = {}
    /\ stores = {}
    /\ lastStore = {}
    /\ exIn = AllUnset
    /\ exOut = << >>

InFlight == BagToSet(inflight)

\* A handler that has returned (or raised) hands its response to the
\* framework before any other handler is observed again.
Running == \A r \in InFlight : r.pc \notin {"done", "raised"}

\* A request is accepted when a worker of the pool is free.
Accepting == Running /\ nreq < MaxReq /\ BagCardinality(inflight) < Workers

Enter(r) == inflight' = inflight (+) SetToBag({r})
Step(r, r2) == inflight' = (inflight (-) SetToBag({r})) (+) SetToBag({r2})
Leave(r) == inflight' = inflight (-) SetToBag({r})

Shared == << file, cache, clock >>
History == << everTrained, everPersisted, staleKeys, stores, lastStore >>
Extraction == << exIn, exOut >>

\* ----------------------------------------------------------------- predict
\* predict up to the cache lookup (the steps before it touch no shared state):
\* the Redis client is built, from_url raising leaves cache = None; then
\* if cache: try: cached = cache.get(cache_key); if cached: return json.loads(cached)
PredictStart(p, connFails, getFails) ==
    LET r == [NewReq EXCEPT !.kind = "predict",
                            !.features = extract_features(PropertyFeatures(p)),
                            !.cache = ~connFails, !.after = stores,
                            !.trainedAtStart = everTrained,
                            !.getTime = clock]
        key == cache_key(r.features)
        found == cache_get(cache, key, clock)
        outcome == IF connFails THEN "miss" ELSE GetOutcome(getFails, found)
    IN  /\ Accepting
        /\ getFails => ~connFails
        /\ nreq' = nreq + 1
        /\ cache' = IF connFails \/ getFails THEN cache
                    ELSE cache_after_get(cache, key, clock)
        /\ Enter(IF outcome = "hit"
                 THEN LET e == CHOOSE e \in found : TRUE
                      IN  [r EXCEPT !.pc = "done", !.result = json_loads(e.value),
                                    !.served = "cache", !.readOk = TRUE,
                                    !.hitStale = (key \in staleKeys),
                                    !.cacheChanged = (cache' # cache),
                                    !.last = {s \in lastStore : s.key = key}]
                 ELSE IF outcome = "miss"
                 THEN [r EXCEPT !.pc = "compute",
                                !.readOk = ~connFails /\ ~getFails,
                                !.last = {s \in lastStore : s.key = key}]
                 ELSE [r EXCEPT !.pc = "raised"])
        /\ UNCHANGED << file, clock, History, Extraction >>

\* if os.path.exists(model_path): try: joblib.load, scaler.transform,
\* model.predict; except: fallback; else: fallback; then the result is built.
\* The file is never removed, so the test and the load see the same file or a
\* later one, and the load's view decides.
PredictCompute(r, loadFails) ==
    LET out == IF file.state = "absent"
               THEN NoModel(r.features)
               ELSE FromModel(file, loadFails, r.features)
    IN  /\ Running
        /\ r.pc = "compute"
        /\ loadFails => file.state = "complete"
        /\ Step(r, [r EXCEPT !.pc = IF out.raised THEN "raised"
                                    ELSE IF r.cache THEN "set" ELSE "done",
                             !.result = MakeResult(out.pred, out.confidence, clock),
                             !.served = "computed", !.seen = file,
                             !.fail = (file.state = "partial" \/ loadFails)])
        /\ UNCHANGED << Shared, nreq, History, Extraction >>

\* if cache: try: cache.set(cache_key, json.dumps(result), ex=3600); return result
PredictSet(r, setFails) ==
    LET key == cache_key(r.features)
        outcome == SetOutcome(setFails)
        rec == [key |-> key, result |-> r.result, at |-> clock, vec |-> r.features]
    IN  /\ Running
        /\ r.pc = "set"
        /\ IF outcome = "stored"
           THEN /\ cache' = cache_set(cache, key, json_dumps(r.result), clock)
                /\ stores' = stores \cup {rec}
                /\ lastStore' = {s \in lastStore : s.key # key} \cup {rec}
                /\ staleKeys' = staleKeys \ {key}
           ELSE UNCHANGED << cache, stores, lastStore, staleKeys >>
        /\ Step(r, [r EXCEPT !.pc = IF outcome = "raise" THEN "raised" ELSE "done",
                             !.setFailed = setFails,
                             !.cacheChanged = (cache' # cache)])
        /\ UNCHANGED << file, clock, nreq, everTrained, everPersisted, Extraction >>

\* ------------------------------------------------------------------- train
\* train up to the fitted model (no shared state is touched):
\* os.makedirs(model_dir, exist_ok=True) runs before the try block, so an
\* OSError from it leaves the handler; then the two validation returns; then
\* the feature extraction of every item and the scaler and regression fits, an
\* invalid item or a failing fit raising into `except Exception as e`.
TrainStart(data, mkdirFails, fitFails) ==
    LET r == [NewReq EXCEPT !.kind = "train", !.data = data]
        m == Validate(data)
    IN  /\ Accepting
        /\ fitFails => ~mkdirFails /\ m = "ok" /\ ~ExtractRaises(data)
        /\ nreq' = nreq + 1
        /\ file' = IF mkdirFails THEN file ELSE makedirs(file)
        /\ Enter(IF mkdirFails
                 THEN [r EXCEPT !.pc = "raised", !.fail = TRUE]
                 ELSE IF m # "ok"
                 THEN [r EXCEPT !.pc = "done", !.result = NotTrainedMessage(m),
                                !.log = << "validation" >>,
                                !.before = [file |-> file, cache |-> cache]]
                 ELSE IF ExtractRaises(data)
                 THEN [r EXCEPT !.pc = "done", !.fail = TRUE,
                                !.log = << "validation", "fit" >>,
                                !.result = NotTrainedError("validation error")]
                 ELSE IF fitFails
                 THEN [r EXCEPT !.pc = "done", !.fail = TRUE,
                                !.log = << "validation", "fit" >>,
                                !.result = NotTrainedError("fit error")]
                 ELSE [r EXCEPT !.pc = "dump", !.artifact = FitArtifact(data),
                                !.log = << "validation", "fit" >>])
        /\ UNCHANGED << cache, clock, History, Extraction >>

\* joblib.dump opens model_path for writing, which truncates it.
TrainDumpBegin(r, openFails) ==
    /\ Running
    /\ r.pc = "dump"
    /\ file' = IF openFails THEN file ELSE PartialFile(r.artifact)
    /\ Step(r, IF openFails
               THEN [r EXCEPT !.pc = "done", !.fail = TRUE,
                              !.log = Append(r.log, "write begun"),
                              !.result = NotTrainedError("open error")]
               ELSE [r EXCEPT !.pc = "dumping", !.fileWritten = TRUE,
                              !.log = Append(r.log, "write begun")])
    /\ UNCHANGED << cache, clock, nreq, History, Extraction >>

TrainDumpEndSwallowed(r, writeFails) ==
    /\ Running
    /\ r.pc = "dumping"
    /\ file' = IF writeFails THEN file ELSE CompleteFile(r.artifact)
    /\ everPersisted' = (everPersisted \/ ~writeFails)
    /\ Step(r, IF writeFails
               THEN [r EXCEPT !.pc = "invalidate", !.fail = TRUE]
               ELSE [r EXCEPT !.pc = "invalidate",
                              !.log = Append(r.log, "write done")])
    /\ UNCHANGED << cache, clock, nreq, everTrained, staleKeys, stores, lastStore,
                    Extraction >>

\* joblib.dump finishes writing the pickle, or fails part way.
TrainDumpEnd(r, writeFails) ==
    /\ Running
    /\ r.pc = "dumping"
    /\ file' = IF writeFails THEN file ELSE CompleteFile(r.artifact)
    /\ everPersisted' = (everPersisted \/ ~writeFails)
    /\ Step(r, IF writeFails
               THEN [r EXCEPT !.pc = "done", !.fail = TRUE,
                              !.result = NotTrainedError("write error")]
               ELSE [r EXCEPT !.pc = "invalidate",
                              !.log = Append(r.log, "write done")])
    /\ UNCHANGED << cache, clock, nreq, everTrained, staleKeys, stores, lastStore,
                    Extraction >>

\* try: cache = redis.from_url(...); cache.delete('ml:predict:*'); except: pass
\* and the return statement, where model.score may raise into
\* `except Exception as e`.
TrainFinish(r, deleteFails, scoreFails) ==
    LET outcome == DeleteOutcome(deleteFails)
        returns == outcome # "raise" /\ ~scoreFails
    IN  /\ Running
        /\ r.pc = "invalidate"
        /\ cache' = IF outcome = "deleted" THEN cache_delete(cache, PatternKey)
                    ELSE cache
        /\ everTrained' = (everTrained \/ returns)
        /\ staleKeys' = IF returns THEN {e.key : e \in cache'} ELSE staleKeys
        /\ Step(r, LET r1 == [r EXCEPT !.pc = "done", !.cacheFailed = deleteFails,
                                       !.cacheChanged = (cache' # cache),
                                       !.log = Append(r.log, "invalidation")]
                   IN  IF outcome = "raise"
                       THEN [r1 EXCEPT !.result = NotTrainedError("cache error")]
                       ELSE IF scoreFails
                       THEN [r1 EXCEPT !.fail = TRUE,
                                       !.result = NotTrainedError("score error")]
                       ELSE [r1 EXCEPT !.result = Trained(r.artifact, r.data, clock)])
        /\ UNCHANGED << file, clock, nreq, everPersisted, stores, lastStore,
                        Extraction >>

\* --------------------------------------------------------------- environment
\* The framework sends the response (a 500 for an exception) and the worker is
\* free again.
Respond(r) ==
    /\ r.pc \in {"done", "raised"}
    /\ Leave(r)
    /\ UNCHANGED << Shared, nreq, History, Extraction >>

\* Time passes; Redis drops the entries whose expiry has come.  A store older
\* than the TTL no longer bears on any lookup and leaves the history.
Tick ==
    /\ Running
    /\ clock + TickStep <= MaxClock
    /\ clock' = clock + TickStep
    /\ cache' = Unexpired(cache, clock')
    /\ staleKeys' = staleKeys \cap {e.key : e \in cache'}
    /\ stores' = {s \in stores : clock' < s.at + TTL}
    /\ lastStore' = {s \in lastStore : clock' < s.at + TTL}
    /\ UNCHANGED << file, inflight, nreq, everTrained, everPersisted, Extraction >>

Next ==
    \/ \E p \in Props, f, g \in BOOLEAN : PredictStart(p, f, g)
    \/ \E r \in InFlight, f \in BOOLEAN : PredictCompute(r, f)
    \/ \E r \in InFlight, f \in BOOLEAN : PredictSet(r, f)
    \/ \E d \in TrainInputs, f, g \in BOOLEAN : TrainStart(d, f, g)
    \/ \E r \in InFlight, f \in BOOLEAN : TrainDumpBegin(r, f)
    \/ \E r \in InFlight, f \in BOOLEAN : TrainDumpEnd(r, f)
    \/ \E r \in InFlight, f, g \in BOOLEAN : TrainFinish(r, f, g)
    \/ \E r \in InFlight : Respond(r)
    \/ Tick

Spec == Init /\ [][Next]_vars

\* ------------------------------------------- backends that never answer
\* redis.from_url(url) is called without socket_timeout or
\* socket_connect_timeout, and joblib.load / joblib.dump read and write through
\* plain file objects: a call the backend never answers never returns, and
\* the handler waits in it.
Blocked(kind) == [NewReq EXCEPT !.pc = "blocked", !.kind = kind]

\* cached = cache.get(cache_key) is never answered.
PredictGetHangs ==
    /\ Accepting
    /\ nreq' = nreq + 1
    /\ Enter(Blocked("predict"))
    /\ UNCHANGED << Shared, History, Extraction >>

\* The next backend call of a handler in flight is never answered: joblib.load
\* (an artifact file exists), cache.set, joblib.dump (before or after it has
\* opened the file) or cache.delete.
OperationHangs(r) ==
    /\ Running
    /\ \/ r.pc = "compute" /\ file.state # "absent"
       \/ r.pc \in {"set", "dump", "dumping", "invalidate"}
    /\ Step(r, Blocked(r.kind))
    /\ UNCHANGED << Shared, nreq, History, Extraction >>

\* A step of a handler that is not waiting, and the sending of a response.
HandlerStep ==
    \E r \in InFlight :
        \/ \E f \in BOOLEAN : PredictCompute(r, f)
        \/ \E f \in BOOLEAN : PredictSet(r, f)
        \/ \E f \in BOOLEAN : TrainDumpBegin(r, f)
        \/ \E f \in BOOLEAN : TrainDumpEnd(r, f)
        \/ \E f, g \in BOOLEAN : TrainFinish(r, f, g)
        \/ Respond(r)

NextLive ==
    \/ Next
    \/ PredictGetHangs
    \/ \E r \in InFlight : OperationHangs(r)

\* A worker thread that can run does run: handler steps are weakly fair.
\* Whether a backend answers is not.
SpecLive == Init /\ [][NextLive]_vars /\ WF_vars(HandlerStep)

\* ------------------------------------------------- extract_features alone
InitExtract ==
    /\ file = NoFile
    /\ cache = {}
    /\ clock = 0
    /\ inflight = EmptyBag
    /\ nreq = 0
    /\ everTrained = FALSE
    /\ everPersisted = FALSE
    /\ staleKeys = {}
    /\ stores = {}
    /\ lastStore = {}
    /\ exIn \in [1..NumFeatures -> FieldInputs]
    /\ exOut = << >>

\* The request schema builds the PropertyFeatures and extract_features is called.
Extract ==
    /\ exOut = << >>
    /\ exOut' = extract_features(PropertyFeatures(exIn))
    /\ UNCHANGED << Shared, inflight, nreq, History, exIn >>

NextExtract == Extract

SpecExtract == InitExtract /\ [][NextExtract]_vars

\* =================================================================== claims
PredictFrames == {r \in InFlight : r.kind = "predict"}
TrainFrames == {r \in InFlight : r.kind = "train"}

\* mean(vector) x 1000 of an 8-element vector, written out (units of 1e-1).
MeanTimes1000(v) ==
    [mean1000 |->
        [num |-> v[1] + v[2] + v[3] + v[4] + v[5] + v[6] + v[7] + v[8], den |-> 8]]

\* C1: after a train has returned trained:true, no predict is answered from a
\* cache entry that was stored before that train returned.
C1_CacheInvalidatedByTrain ==
    \A r \in PredictFrames :
        r.pc = "done" /\ r.served = "cache" => ~r.hitStale

\* C2: no predict ever loads the artifact file while it is partially written.
C2_NoPartialArtifactSeen ==
    \A r \in PredictFrames :
        r.served = "computed" => r.seen.state # "partial"

\* C3: a predict issued after a train has returned trained:true, and in which
\* no load / scale / inference step failed, returns confidence 0.75 and the
\* price of an artifact's scaler and regression applied to its vector.
C3_ModelResultOnceTrained ==
    \A r \in PredictFrames :
        r.pc = "done" /\ r.trainedAtStart /\ ~r.fail =>
            /\ r.result.confidence = 75
            /\ "regression" \in DOMAIN r.result.price
            /\ r.served = "computed" =>
                   r.result.price = ModelPrice(r.seen.art, r.features)

\* C4: while no artifact has ever been persisted, every predict response,
\* computed or served from the cache, has confidence 0.30 and
\* price = mean(vector) x 1000.
C4_FallbackWithoutArtifact ==
    ~everPersisted =>
        \A r \in PredictFrames :
            r.pc = "done" =>
                /\ r.result.confidence = 30
                /\ r.result.price = MeanTimes1000(r.features)

C4_Witness ==
    /\ ~everPersisted
    /\ \E r \in PredictFrames : r.pc = "done" /\ r.served = "cache"
    /\ \E r \in TrainFrames : r.pc = "dumping"

\* What a predict computes from the model store alone, given the file it saw
\* and whether a step of the model branch failed.
ComputedAlone(r) ==
    IF r.seen.state = "complete" /\ ~r.fail
    THEN [price |-> ModelPrice(r.seen.art, r.features), confidence |-> 75]
    ELSE [price |-> MeanTimes1000(r.features), confidence |-> 30]

\* C5: the cache is best-effort.  No predict raises; a predict whose cache
\* read failed (no connection, or get raised) computes, and returns the price,
\* confidence and model version the model store alone gives; a failed cache
\* write leaves the cache as it was and the result is still returned; a train
\* whose cache deletion failed, and in which nothing else failed, has
\* persisted its artifact and returns trained:true.
C5_CacheBestEffort ==
    /\ \A r \in PredictFrames :
        /\ r.pc # "raised"
        /\ r.pc = "done" /\ ~r.readOk =>
              /\ r.served = "computed"
              /\ r.result.price = ComputedAlone(r).price
              /\ r.result.confidence = ComputedAlone(r).confidence
              /\ r.result.model_version = "v1"
        /\ r.pc = "done" /\ r.setFailed =>
              /\ ~r.cacheChanged
              /\ r.result # NoResult
    /\ \A r \in TrainFrames :
        r.pc = "done" /\ r.cacheFailed /\ ~r.fail =>
              /\ r.result.trained = TRUE
              /\ r.result.samples = Len(r.data.properties)
              /\ everPersisted

C5_Witness ==
    \E r \in PredictFrames :
        /\ r.pc = "done" /\ r.cache /\ ~r.readOk /\ r.setFailed
        /\ r.seen.state = "complete"
        /\ cache # {}

\* C6 as stated: once a predict has stored r under a key, every later predict
\* for the same resolved vector whose lookup succeeds within 3600 s of that
\* store returns exactly r.
C6_StoredResultUntilExpiry ==
    \A r \in PredictFrames :
        r.pc = "done" /\ r.cache /\ r.readOk =>
            \A s \in r.after :
                s.key = cache_key(r.features) /\ r.getTime < s.at + 3600 =>
                    r.result = s.result

\* C6 as amended: a predict whose lookup succeeds returns exactly the result of
\* the most recent store under its key when that store is less than 3600 s old
\* at the lookup, and computes when there is no such store.
C6_LatestStoreUntilExpiry ==
    \A r \in PredictFrames :
        r.pc = "done" /\ r.cache /\ r.readOk =>
            LET recent == {s \in r.last : r.getTime < s.at + 3600}
            IN  IF recent # {}
                THEN r.served = "cache" /\ \A s \in recent : r.result = s.result
                ELSE r.served = "computed"

C6_Witness ==
    \E r \in PredictFrames :
        /\ r.pc = "done" /\ r.served = "cache"
        /\ \E s \in r.last : s.at < r.getTime /\ s.result = r.result
        /\ everTrained

\* C7: train validates in a fixed order.  A train that got past os.makedirs
\* answers "No data provided" when either list is empty (also when the lengths
\* differ), the length-mismatch message when both are non-empty and differ in
\* length, and otherwise goes on to fitting (its answer is no validation
\* message).
C7_ValidationOrder ==
    \A r \in TrainFrames :
        r.pc # "raised" =>
            LET np == Len(r.data.properties)
                nq == Len(r.data.prices)
            IN  /\ np = 0 \/ nq = 0 =>
                      /\ r.pc = "done"
                      /\ r.result = [trained |-> FALSE, message |-> "No data provided"]
                /\ np # 0 /\ nq # 0 /\ np # nq =>
                      /\ r.pc = "done"
                      /\ r.result =
                            [trained |-> FALSE,
                             message |-> "Mismatch: properties and prices length differ"]
                /\ np # 0 /\ np = nq => "message" \notin DOMAIN r.result

C7_Witness ==
    \E r \in TrainFrames :
        /\ r.pc = "done"
        /\ Len(r.data.properties) = 0
        /\ Len(r.data.prices) = 2

\* C8: no failure of an internal step of train leaves the handler as an
\* exception.
C8_TrainNeverRaises ==
    \A r \in TrainFrames : r.pc # "raised"

\* C9: no predict raises, and a predict in which loading, scaling or inference
\* failed on an existing artifact file returns mean(vector) x 1000 with
\* confidence 0.30, model version "v1" and a timestamp.
C9_PredictFallsBack ==
    \A r \in PredictFrames :
        /\ r.pc # "raised"
        /\ r.fail /\ r.pc \in {"set", "done"} =>
              /\ r.seen.state # "absent"
              /\ r.result.price = MeanTimes1000(r.features)
              /\ r.result.confidence = 30
              /\ r.result.model_version = "v1"
              /\ r.result.predicted_at \in 0..clock

C9_Witness ==
    \E r \in PredictFrames :
        r.pc = "done" /\ r.fail /\ r.seen.state = "complete"

\* The defaults of the data model's table, in units of 1e-4:
\* 2, 1, 1, 500, 120, -33.8688, 151.2093, 50.
DocumentedDefaults ==
    << 20000, 10000, 10000, 5000000, 1200000, -338688, 1512093, 500000 >>

\* C10: for every subset of the fields left unset or null, extract_features
\* returns an 8-element vector holding the documented default at every unset
\* or null position.
C10_DefaultsForUnset ==
    exOut # << >> =>
        /\ DOMAIN exOut = 1..8
        /\ \A i \in 1..8 :
              exIn[i].tag \in {"unset", "null"} => exOut[i] = DocumentedDefaults[i]

C10_Witness ==
    /\ exOut # << >>
    /\ exIn[1].tag = "num" /\ exIn[1].n # 0
    /\ exIn[6].tag = "null"
    /\ exIn[7].tag = "unset"

\* C11: a predict for resolved vector v is answered from the cache only with a
\* result that was stored by a predict for the same vector v, and the key of a
\* request equals the key of a stored entry exactly when their resolved
\* vectors are equal.
C11_KeyIffSameVector ==
    \A r \in PredictFrames :
        /\ r.pc = "done" /\ r.served = "cache" =>
              /\ r.last # {}
              /\ \A s \in r.last : s.vec = r.features /\ s.result = r.result
        /\ \A s \in lastStore :
              (cache_key(r.features) = s.key) <=> (r.features = s.vec)

C11_Witness ==
    /\ \E r \in PredictFrames : r.pc = "done" /\ r.served = "cache"
    /\ \E s, t \in lastStore : s.vec # t.vec /\ s.key # t.key
    /\ \A s \in lastStore : \E e \in cache : e.key = s.key

\* C12: every predict and every train request eventually returns a response,
\* also when a cache or model-store operation is never answered: whenever
\* requests are in flight, a later instant has none in flight.
C12_EveryRequestReturns ==
    (inflight # EmptyBag) ~> (inflight = EmptyBag)

\* C13: only absent or null fields take the default; every explicit non-null
\* value, 0 included, stands unchanged at its position of the extracted
\* vector.
C13_ExplicitValuesKept ==
    exOut # << >> =>
        \A i \in 1..8 :
            /\ exIn[i].tag = "num" => exOut[i] = exIn[i].n
            /\ exOut[i] # exIn[i].n => exIn[i].tag \in {"unset", "null"}

\* The steps of a train in the order section 2 gives them.
TrainOrder == << "validation", "fit", "write begun", "write done", "invalidation" >>

\* C14: the steps of every train occur in the order validation, fit,
\* model-store write, cache invalidation: the invalidation is attempted only
\* after the artifact write has completed (and an artifact has then been
\* persisted), and a train that validation rejected, or that failed before or
\* during the write, has not attempted it.
C14_TrainStepOrder ==
    \A r \in TrainFrames :
        /\ Len(r.log) <= 5 /\ r.log = SubSeq(TrainOrder, 1, Len(r.log))
        /\ (\E i \in 1..Len(r.log) : r.log[i] = "invalidation") =>
              /\ \E i \in 1..Len(r.log) : r.log[i] = "write done"
              /\ r.fileWritten /\ everPersisted
              /\ Validate(r.data) = "ok"
        /\ r.pc = "invalidate" => r.log = SubSeq(TrainOrder, 1, 4)
        /\ r.pc = "done" /\ "message" \in DOMAIN r.result =>
              r.log = << "validation" >>

C14_Witness ==
    \E r \in TrainFrames :
        /\ r.pc = "done" /\ r.log = TrainOrder
        /\ r.result.trained = FALSE

\* C15: a train that validation rejects (an empty list, or lists of different
\* lengths) leaves the artifact file and every cache entry as it found them.
C15_RejectedTrainChangesNothing ==
    \A r \in TrainFrames :
        r.pc = "done" /\ "message" \in DOMAIN r.result =>
            /\ r.before = [file |-> file, cache |-> cache]
            /\ ~r.fileWritten
            /\ ~r.cacheChanged

C15_Witness ==
    \E r \in TrainFrames :
        /\ r.pc = "done"
        /\ r.result = [trained |-> FALSE,
                       message |-> "Mismatch: properties and prices length differ"]
        /\ file.state = "complete"
        /\ cache # {}

\* C16: a train that returns trained:false, whatever the reason, has not
\* written the artifact file and has deleted no cache entry.
C16_FailedTrainChangesNothing ==
    \A r \in TrainFrames :
        r.pc = "done" /\ r.result.trained = FALSE =>
            /\ ~r.fileWritten
            /\ ~r.cacheChanged

\* C17: a predict that overlapped a train which has returned trained:true, and
\* in which no load, scale or inference step failed, has not left in the cache
\* a result computed from anything but the artifact now in place (checked when
\* it is the only request still in flight and the artifact file is complete).
C17_NoRetiredResultCached ==
    \A r \in PredictFrames :
        /\ r.pc = "done" /\ r.served = "computed" /\ ~r.fail
        /\ ~r.trainedAtStart /\ everTrained
        /\ BagCardinality(inflight) = 1 /\ file.state = "complete"
        => \A e \in cache :
              e.key = cache_key(r.features) /\ e.value = json_dumps(r.result) =>
                  /\ r.result.confidence = 75
                  /\ r.result.price = ModelPrice(file.art, r.features)

\* C18: a predict served from the cache has not read the model store and has
\* left the cache as it was: the entry it was served from still carries the
\* expiry of 3600 s after its store, and every entry the cache holds expires
\* 3600 s after the store that wrote it and is gone by then.
C18_HitLeavesStateAlone ==
    /\ \A r \in PredictFrames :
          r.pc = "done" /\ r.served = "cache" =>
              /\ ~r.cacheChanged
              /\ r.seen = NoFile /\ ~r.fail
              /\ \E e \in cache :
                    /\ e.key = cache_key(r.features)
                    /\ json_loads(e.value) = r.result
                    /\ \A s \in r.last : e.expires = s.at + 3600
    /\ \A e \in cache :
          /\ clock < e.expires
          /\ \E s \in lastStore : s.key = e.key /\ e.expires = s.at + 3600

C18_Witness ==
    \E r \in PredictFrames :
        /\ r.pc = "done" /\ r.served = "cache"
        /\ \E s \in r.last : s.at < clock
        /\ file.state = "complete"

====
